---- MODULE Spec2Model ----
(***************************************************************************)
(* Agent account management (agentController.js) over the User collection  *)
(* and the transactional e-mail senders (emailService.js).                 *)
(*                                                                         *)
(* Strings that the code inspects (e-mail, name, phone, search, query      *)
(* parameters, ticket status) are sequences of one-character strings, so   *)
(* that replace(/\D/g,''), trim(), toLowerCase(), parseInt() and $regex    *)
(* are computed and not assumed.  A handler is a sequence of steps, one    *)
(* per await; steps of different requests interleave.                      *)
(***************************************************************************)
EXTENDS Integers, Sequences, FiniteSets, TLC

VARIABLES
    users,      \* the User collection: users[i] is the document with _id = i
    clock,      \* the value the next `new Date()` of a create returns
    reqs,       \* reqs[p]: the request that connection p is serving
    base,       \* the collection when the requests now in reqs began
    deletedOK,  \* ids for which deleteAgent has answered 200
    served,     \* how many requests have begun
    mail        \* emailService.js: environment, provider and running call

vars == <<users, clock, reqs, base, deletedOK, served, mail>>

-----------------------------------------------------------------------------
(* Bounds *)

MaxUsers == 4
MaxRequests == 3
NumProcs == 2
MaxPageParam == 3
MaxLimitParam == 2

Procs == 1..NumProcs

-----------------------------------------------------------------------------
(* Characters and strings *)

Digits == {"0", "1", "2", "3", "4", "5", "6", "7", "8", "9"}

\* an `undefined` property of req.body / req.query
Absent == <<"undefined">>

\* JavaScript truthiness of a string-or-undefined value
Truthy(s) == s # Absent /\ s # <<>>

DigitVal(c) ==
    CASE c = "0" -> 0 [] c = "1" -> 1 [] c = "2" -> 2 [] c = "3" -> 3
      [] c = "4" -> 4 [] c = "5" -> 5 [] c = "6" -> 6 [] c = "7" -> 7
      [] c = "8" -> 8 [] c = "9" -> 9

ToLowerChar(c) ==
    CASE c = "A" -> "a" [] c = "B" -> "b" [] c = "C" -> "c" [] c = "D" -> "d"
      [] c = "E" -> "e" [] c = "F" -> "f" [] c = "G" -> "g" [] c = "H" -> "h"
      [] c = "I" -> "i" [] c = "J" -> "j" [] c = "K" -> "k" [] c = "L" -> "l"
      [] c = "M" -> "m" [] c = "N" -> "n" [] c = "O" -> "o" [] c = "P" -> "p"
      [] c = "Q" -> "q" [] c = "R" -> "r" [] c = "S" -> "s" [] c = "T" -> "t"
      [] c = "U" -> "u" [] c = "V" -> "v" [] c = "W" -> "w" [] c = "X" -> "x"
      [] c = "Y" -> "y" [] c = "Z" -> "z" [] OTHER -> c

ToLowerCase(s) == [i \in 1..Len(s) |-> ToLowerChar(s[i])]

\* String(x).replace(/\D/g, '')
DigitsOnly(s) == SelectSeq(s, LAMBDA c : c \in Digits)

RECURSIVE TrimLeft(_)
TrimLeft(s) == IF s # <<>> /\ Head(s) = " " THEN TrimLeft(Tail(s)) ELSE s

RECURSIVE TrimRight(_)
TrimRight(s) ==
    IF s # <<>> /\ s[Len(s)] = " " THEN TrimRight(SubSeq(s, 1, Len(s) - 1)) ELSE s

\* String.prototype.trim
Trim(s) == TrimRight(TrimLeft(s))

\* `${firstName} ${lastName}`.trim()
FullName(firstName, lastName) == Trim(firstName \o <<" ">> \o lastName)

\* needle occurs in hay as a contiguous substring
Contains(hay, needle) ==
    \E i \in 0..(Len(hay) - Len(needle)) :
        \A j \in 1..Len(needle) : hay[i + j] = needle[j]

\* { field: { $regex: search, $options: 'i' } } for a search without
\* regular-expression metacharacters
RegexMatchI(field, search) == Contains(ToLowerCase(field), ToLowerCase(search))

Min(a, b) == IF a < b THEN a ELSE b

Abs(a) == IF a < 0 THEN -a ELSE a

\* Math.ceil(a / b) for b # 0
CeilDiv(a, b) == IF b > 0 THEN -((-a) \div b) ELSE -(a \div (-b))

-----------------------------------------------------------------------------
(* parseInt *)

RECURSIVE DigitPrefix(_)
DigitPrefix(s) ==
    IF s # <<>> /\ Head(s) \in Digits THEN <<Head(s)>> \o DigitPrefix(Tail(s))
    ELSE <<>>

RECURSIVE DecimalValue(_)
DecimalValue(ds) ==
    IF ds = <<>> THEN 0
    ELSE 10 * DecimalValue(SubSeq(ds, 1, Len(ds) - 1)) + DigitVal(ds[Len(ds)])

\* parseInt(s): leading blanks, an optional sign, then the longest digit
\* prefix; NaN when there is no digit.  undefined parses to NaN.
ParseInt(s) ==
    LET t == IF s = Absent THEN <<>> ELSE TrimLeft(s)
        neg == t # <<>> /\ Head(t) = "-"
        u == IF t # <<>> /\ Head(t) \in {"-", "+"} THEN Tail(t) ELSE t
        ds == DigitPrefix(u)
    IN  IF ds = <<>> THEN [nan |-> TRUE, val |-> 0]
        ELSE [nan |-> FALSE,
              val |-> IF neg THEN -DecimalValue(ds) ELSE DecimalValue(ds)]

\* parseInt(s) || dflt : NaN and 0 are falsy
ParseIntOr(s, dflt) ==
    LET n == ParseInt(s) IN IF n.nan \/ n.val = 0 THEN dflt ELSE n.val

-----------------------------------------------------------------------------
(* The User collection (models/User.js, as the controller uses it) *)

NoDate == 0

\* the schema's pre-save hook: a phone of exactly ten digits is stored
\* with the country code
PreSavePhone(phone) ==
    IF Len(phone) = 10 /\ DigitsOnly(phone) = phone THEN <<"+", "1">> \o phone
    ELSE phone

\* the schema's pre-save hook: the password is stored hashed
HashPassword(pw) == <<"hash">> \o pw

\* User.create(fields) at time `now`: schema defaults, hooks, timestamps
NewUser(fields, now) ==
    [role |-> fields.role,
     name |-> fields.name,
     email |-> fields.email,
     phone |-> PreSavePhone(fields.phone),
     password |-> HashPassword(fields.password),
     categoryIds |-> fields.categoryIds,
     status |-> fields.status,
     isActive |-> TRUE,
     isDeleted |-> FALSE,
     deletedAt |-> NoDate,
     createdAt |-> now]

NoDoc == [none |-> TRUE]

Ids(U) == 1..Len(U)

\* a lookup that skips soft-deleted documents
FindOneByEmail_LiveOnly(U, email) ==
    {i \in 1..Len(U) : U[i].email = email /\ ~U[i].isDeleted}

\* User.findOne({ email })
FindOneByEmail(U, email) == {i \in Ids(U) : U[i].email = email}

\* User.findOne({ phone })
FindOneByPhone(U, phone) == {i \in Ids(U) : U[i].phone = phone}

\* User.findById(id)
FindById(U, id) == {i \in Ids(U) : i = id}

\* a lookup by id alone
FindAgent_AnyRole(U, id) == {i \in 1..Len(U) : i = id}

\* User.findOne({ _id: id, role: 'agent' })
FindAgent(U, id) == {i \in FindById(U, id) : U[i].role = "agent"}

\* the document as the pre-save hooks leave it: only a modified phone or
\* password goes through its hook
PreSave(orig, doc) ==
    [doc EXCEPT
        !.phone = IF doc.phone # orig.phone THEN PreSavePhone(doc.phone) ELSE @,
        !.password = IF doc.password # orig.password THEN HashPassword(@) ELSE @]

\* document.save(): an update of the stored document that sets exactly the
\* paths modified since it was loaded (orig is the document as loaded)
SaveDoc(U, id, orig, doc) ==
    LET d == PreSave(orig, doc)
    IN  [U EXCEPT ![id] =
            [f \in DOMAIN U[id] |-> IF d[f] # orig[f] THEN d[f] ELSE U[id][f]]]

-----------------------------------------------------------------------------
(* getAgentsList's query *)

\* the query without isDeleted: false, as exportAgents builds it
MatchesList_WithDeleted(u, search) ==
    /\ u.role = "agent"
    /\ (Truthy(search) =>
            \/ RegexMatchI(u.name, search)
            \/ RegexMatchI(u.email, search)
            \/ RegexMatchI(u.phone, search))

\* searchQuery of getAgentsList: non-deleted agents, and with a search
\* those whose name, email or phone matches it
MatchesList(u, search) ==
    /\ u.role = "agent"
    /\ u.isDeleted = FALSE
    /\ (Truthy(search) =>
            \/ RegexMatchI(u.name, search)
            \/ RegexMatchI(u.email, search)
            \/ RegexMatchI(u.phone, search))

MatchingIds(U, search) == {i \in Ids(U) : MatchesList(U[i], search)}

\* User.countDocuments(searchQuery)
CountDocuments(U, search) == Cardinality(MatchingIds(U, search))

\* i comes before j under .sort({ createdAt: -1 })
Before(U, i, j) ==
    \/ U[i].createdAt > U[j].createdAt
    \/ U[i].createdAt = U[j].createdAt /\ i < j

RECURSIVE SortDesc(_, _)
SortDesc(U, S) ==
    IF S = {} THEN <<>>
    ELSE LET first == CHOOSE i \in S : \A j \in S \ {i} : Before(U, i, j)
         IN  <<first>> \o SortDesc(U, S \ {first})

\* cursor.skip(n): the sequence without its first n elements
Skip(s, n) == SubSeq(s, n + 1, Len(s))

\* cursor.limit(n): at most |n| elements (a negative limit is a single batch
\* of |n|)
Limit(s, n) == SubSeq(s, 1, Min(Len(s), Abs(n)))

\* User.find(searchQuery).sort({createdAt: -1}).skip(skip).limit(limit)
FindPage(U, search, skip, limit) == Limit(Skip(SortDesc(U, MatchingIds(U, search)), skip), limit)

\* name.split(' ')[0]
RECURSIVE FirstPart(_)
FirstPart(name) ==
    IF name = <<>> \/ Head(name) = " " THEN <<>>
    ELSE <<Head(name)>> \o FirstPart(Tail(name))

\* name.split(' ').slice(1).join(' ')
RestParts(name) == SubSeq(name, Len(FirstPart(name)) + 2, Len(name))

\* the object the handlers answer with for one agent document
AgentView(U, i) ==
    [id |-> i,
     firstName |-> FirstPart(U[i].name),
     lastName |-> RestParts(U[i].name),
     name |-> U[i].name,
     email |-> U[i].email,
     phone |-> U[i].phone,
     role |-> U[i].role,
     categoryIds |-> U[i].categoryIds,
     status |-> U[i].status,
     isActive |-> U[i].isActive,
     createdAt |-> U[i].createdAt]

-----------------------------------------------------------------------------
(* Requests *)

DefaultPage == 1
DefaultLimit == 10

NoBody == [none |-> TRUE]
NoQuery == [none |-> TRUE]
NoResp == [code |-> 0]
NoData == [none |-> TRUE]

\* a connection that serves no request
Idle ==
    [kind |-> "idle", pc |-> "idle", id |-> 0, body |-> NoBody, query |-> NoQuery,
     orig |-> NoDoc, doc |-> NoDoc, total |-> 0,
     logged |-> <<>>, notifs |-> 0, emails |-> <<>>, pushes |-> <<>>,
     resp |-> NoResp, deletedBefore |-> {}]

\* the request as the router hands it to its handler
NewRequest(kind, id, body, query) ==
    [Idle EXCEPT !.kind = kind, !.pc = "start", !.id = id, !.body = body,
                 !.query = query]

Running(r) == r.pc \notin {"idle", "done"}

\* res.status(code).json({ message, data }) or res.json(...): the handler ends
Respond(r, code, message, data) ==
    [r EXCEPT !.pc = "done",
              !.resp = [code |-> code, message |-> message, data |-> data]]

Goto(r, pc) == [r EXCEPT !.pc = pc]

\* what one step of a handler leaves: the request, the collection, the clock
Result(r, U, now) == [r |-> r, users |-> U, clock |-> now]

\* the catch block of a handler
ServerError(r) == Respond(r, 500, "Server error", NoData)

\* a logActivity whose failure is swallowed: the handler goes on without an
\* entry
LogActivity_Swallowed(r, status, next) ==
    {[r EXCEPT !.pc = next, !.logged = Append(@, status)], [r EXCEPT !.pc = next]}

\* await logActivity(req, { message, status }): the entry is written, or the
\* call rejects and the handler's catch block answers
LogActivity(r, status, next) ==
    {[r EXCEPT !.pc = next, !.logged = Append(@, status)], ServerError(r)}

\* try { await sendPushNotification(...) } catch (pushError) { console.error }
SendPush(r) == {[r EXCEPT !.pushes = Append(@, outcome)] : outcome \in {"sent", "threw"}}

\* the send without its try/catch: a thrown error reaches the handler's catch
SendWelcomeEmail_Uncaught(r) ==
    {[r EXCEPT !.pc = "sendPush", !.emails = Append(@, outcome)] :
        outcome \in {"sent", "failed"}}
    \cup {[r EXCEPT !.pc = "done", !.emails = Append(@, "threw"),
                    !.resp = [code |-> 500, message |-> "Server error",
                              data |-> [none |-> TRUE]]]}

\* try { emailResult = await sendEmail(...) } catch (emailError) { console.error }:
\* success, success false and a thrown error all go on to the push
SendWelcomeEmail(r) ==
    {[r EXCEPT !.pc = "sendPush", !.emails = Append(@, outcome)] :
        outcome \in {"sent", "failed", "threw"}}

\* await User.create(...) / await agent.save(): the write w is done, or the
\* call rejects with nothing written
Write(r, U, now, w) == {w, Result(ServerError(r), U, now)}

-----------------------------------------------------------------------------
(* createAgent *)

\* the phone the duplicate check looks for
NormalizedPhone(phone) ==
    LET phoneDigits == DigitsOnly(phone)
    IN  IF Len(phoneDigits) = 10 THEN <<"+", "1">> \o phoneDigits ELSE phone

\* a handler that goes on to User.create whatever the password
PasswordCheck_Skipped(r) == [r EXCEPT !.pc = "create"]

\* if (!password) return 400, else go on to User.create
PasswordCheck(r) ==
    IF ~Truthy(r.body.password) THEN Respond(r, 400, "Password is required", NoData)
    ELSE Goto(r, "create")

\* the fields with the name as it is joined, not trimmed
CreateFields_Untrimmed(body) ==
    [name |-> body.firstName \o <<" ">> \o body.lastName,
     email |-> body.email,
     password |-> body.password,
     role |-> "agent",
     phone |-> IF Truthy(body.phone) THEN DigitsOnly(body.phone) ELSE <<>>,
     categoryIds |-> IF body.categoryId # Absent THEN body.categoryId ELSE <<>>,
     status |-> "offline"]

\* the fields createAgent passes to User.create
CreateFields(body) ==
    [name |-> FullName(body.firstName, body.lastName),
     email |-> body.email,
     password |-> body.password,
     role |-> "agent",
     phone |-> IF Truthy(body.phone) THEN DigitsOnly(body.phone) ELSE <<>>,
     categoryIds |-> IF body.categoryId # Absent THEN body.categoryId ELSE <<>>,
     status |-> "offline"]

CreatedResponse(r) ==
    Respond(r, 201, "Agent created successfully",
            [id |-> r.id,
             firstName |-> r.body.firstName,
             lastName |-> r.body.lastName,
             name |-> r.doc.name,
             email |-> r.doc.email,
             phone |-> IF Truthy(r.body.phone) THEN r.body.phone ELSE <<>>,
             role |-> r.doc.role,
             categoryIds |-> r.doc.categoryIds,
             status |-> r.doc.status,
             createdAt |-> r.doc.createdAt])

\* the steps of createAgent from r: each element is one way the step can end
CreateAgentStep(r, U, now) ==
    CASE r.pc = "start" ->
            IF FindOneByEmail(U, r.body.email) # {}
            THEN {Result(Respond(r, 400, "User with this email already exists", NoData),
                         U, now)}
            ELSE IF Truthy(r.body.phone) THEN {Result(Goto(r, "findPhone"), U, now)}
            ELSE {Result(PasswordCheck(r), U, now)}
      [] r.pc = "findPhone" ->
            IF FindOneByPhone(U, NormalizedPhone(r.body.phone)) # {}
            THEN {Result(Respond(r, 400, "User with this phone number already exists",
                                 NoData), U, now)}
            ELSE {Result(PasswordCheck(r), U, now)}
      [] r.pc = "create" ->
            LET agent == NewUser(CreateFields(r.body), now)
            IN  Write(r, U, now,
                      Result([r EXCEPT !.pc = "logActivity", !.doc = agent,
                                       !.id = Len(U) + 1],
                             Append(U, agent), now + 1))
      [] r.pc = "logActivity" ->
            {Result(x, U, now) : x \in LogActivity(r, "added", "sendEmail")}
      [] r.pc = "sendEmail" -> {Result(x, U, now) : x \in SendWelcomeEmail(r)}
      [] r.pc = "sendPush" -> {Result(CreatedResponse(x), U, now) : x \in SendPush(r)}

-----------------------------------------------------------------------------
(* updateAgent *)

\* assignments that also restore a soft-deleted agent
UpdatedFields_Restoring(agent, body) ==
    [agent EXCEPT
        !.name = IF Truthy(body.firstName) /\ Truthy(body.lastName)
                 THEN FullName(body.firstName, body.lastName) ELSE @,
        !.email = IF Truthy(body.email) THEN body.email ELSE @,
        !.phone = IF body.phone # Absent
                  THEN (IF Truthy(body.phone) THEN DigitsOnly(body.phone) ELSE <<>>)
                  ELSE @,
        !.password = IF Truthy(body.password) /\ Trim(body.password) # <<>>
                     THEN body.password ELSE @,
        !.categoryIds = IF body.categoryId # Absent THEN body.categoryId ELSE @,
        !.isDeleted = FALSE]

\* the assignments to the loaded document
UpdatedFields(agent, body) ==
    [agent EXCEPT
        !.name = IF Truthy(body.firstName) /\ Truthy(body.lastName)
                 THEN FullName(body.firstName, body.lastName) ELSE @,
        !.email = IF Truthy(body.email) THEN body.email ELSE @,
        !.phone = IF body.phone # Absent
                  THEN (IF Truthy(body.phone) THEN DigitsOnly(body.phone) ELSE <<>>)
                  ELSE @,
        !.password = IF Truthy(body.password) /\ Trim(body.password) # <<>>
                     THEN body.password ELSE @,
        !.categoryIds = IF body.categoryId # Absent THEN body.categoryId ELSE @]

UpdatedResponse(r) ==
    Respond(r, 200, "Agent updated successfully",
            [id |-> r.id,
             firstName |-> FirstPart(r.doc.name),
             lastName |-> RestParts(r.doc.name),
             name |-> r.doc.name,
             email |-> r.doc.email,
             phone |-> r.doc.phone,
             categoryIds |-> r.doc.categoryIds,
             createdAt |-> r.doc.createdAt])

UpdateAgentStep(r, U, now) ==
    CASE r.pc = "start" ->
            IF FindAgent(U, r.id) = {}
            THEN {Result(Respond(r, 404, "Agent not found", NoData), U, now)}
            ELSE {Result([r EXCEPT !.pc = "save", !.orig = U[r.id],
                                   !.doc = UpdatedFields(U[r.id], r.body)], U, now)}
      [] r.pc = "save" ->
            Write(r, U, now,
                  Result([r EXCEPT !.pc = "logActivity", !.doc = PreSave(r.orig, r.doc)],
                         SaveDoc(U, r.id, r.orig, r.doc), now))
      [] r.pc = "logActivity" ->
            {Result(x, U, now) : x \in LogActivity(r, "updated", "sendPush")}
      [] r.pc = "sendPush" -> {Result(UpdatedResponse(x), U, now) : x \in SendPush(r)}

-----------------------------------------------------------------------------
(* deleteAgent *)

\* await Notification.create({ title: 'Agent Removed', ... }): the
\* notification is stored, or the call rejects
CreateNotification(r, next) ==
    {[r EXCEPT !.pc = next, !.notifs = @ + 1], ServerError(r)}

\* the handler without its isDeleted check
DeleteAgentStep_NoDeletedCheck(r, U, now) ==
    CASE r.pc = "start" ->
            IF FindAgent(U, r.id) = {}
            THEN {Result(Respond(r, 404, "Agent not found", NoData), U, now)}
            ELSE {Result([r EXCEPT !.pc = "save", !.orig = U[r.id],
                                   !.doc = [U[r.id] EXCEPT !.isDeleted = TRUE,
                                                           !.deletedAt = now]], U, now)}
      [] r.pc = "save" ->
            Write(r, U, now,
                  Result(Goto(r, "notification"), SaveDoc(U, r.id, r.orig, r.doc), now))
      [] r.pc = "notification" ->
            {Result(x, U, now) : x \in CreateNotification(r, "logActivity")}
      [] r.pc = "logActivity" ->
            {Result(IF x.pc = "done" THEN x
                    ELSE Respond(x, 200, "Agent deleted successfully", NoData), U, now) :
                x \in LogActivity(r, "deleted", "respond")}

DeleteAgentStep(r, U, now) ==
    CASE r.pc = "start" ->
            IF FindAgent(U, r.id) = {}
            THEN {Result(Respond(r, 404, "Agent not found", NoData), U, now)}
            ELSE IF U[r.id].isDeleted
            THEN {Result(Respond(r, 400, "Agent is already deleted", NoData), U, now)}
            ELSE {Result([r EXCEPT !.pc = "save", !.orig = U[r.id],
                                   !.doc = [U[r.id] EXCEPT !.isDeleted = TRUE,
                                                           !.deletedAt = now]], U, now)}
      [] r.pc = "save" ->
            Write(r, U, now,
                  Result(Goto(r, "notification"), SaveDoc(U, r.id, r.orig, r.doc), now))
      [] r.pc = "notification" ->
            {Result(x, U, now) : x \in CreateNotification(r, "logActivity")}
      [] r.pc = "logActivity" ->
            {Result(IF x.pc = "done" THEN x
                    ELSE Respond(x, 200, "Agent deleted successfully", NoData), U, now) :
                x \in LogActivity(r, "deleted", "respond")}

-----------------------------------------------------------------------------
(* toggleAgentStatus *)

ToggledResponse(r) ==
    Respond(r, 200,
            IF r.doc.isActive THEN "Agent activated successfully"
            ELSE "Agent deactivated successfully",
            [id |-> r.id, agent |-> r.doc])

ToggleAgentStatusStep(r, U, now) ==
    CASE r.pc = "start" ->
            IF FindById(U, r.id) = {}
            THEN {Result(Respond(r, 404, "Agent not found", NoData), U, now)}
            ELSE IF U[r.id].role # "agent"
            THEN {Result(Respond(r, 400, "User is not an agent", NoData), U, now)}
            ELSE {Result([r EXCEPT !.pc = "save", !.orig = U[r.id],
                                   !.doc = [U[r.id] EXCEPT !.isActive = ~@]], U, now)}
      [] r.pc = "save" ->
            Write(r, U, now,
                  Result(Goto(r, "logActivity"), SaveDoc(U, r.id, r.orig, r.doc), now))
      [] r.pc = "logActivity" ->
            {Result(IF x.pc = "done" THEN x ELSE ToggledResponse(x), U, now) :
                x \in LogActivity(r, "updated", "respond")}

-----------------------------------------------------------------------------
(* getAgent *)

GetAgentStep(r, U, now) ==
    IF FindAgent(U, r.id) = {}
    THEN {Result(Respond(r, 404, "Agent not found", NoData), U, now)}
    ELSE {Result(Respond(r, 200, "", AgentView(U, r.id)), U, now)}

-----------------------------------------------------------------------------
(* getAgentsList *)

PageOf(query) == ParseIntOr(query.page, DefaultPage)

LimitOf(query) == ParseIntOr(query.limit, DefaultLimit)

\* a skip that counts pages from zero
SkipFor_FromZero(page, limit) == page * limit

\* skip = (page - 1) * limit
SkipFor(page, limit) == (page - 1) * limit

\* req.query.search || ''
SearchOf(query) == IF Truthy(query.search) THEN query.search ELSE <<>>

Pagination(page, limit, totalAgents) ==
    LET totalPages == CeilDiv(totalAgents, limit)
    IN  [currentPage |-> page,
         totalPages |-> totalPages,
         totalAgents |-> totalAgents,
         hasNextPage |-> page < totalPages,
         hasPrevPage |-> page > 1,
         limit |-> limit]

GetAgentsListStep(r, U, now) ==
    LET page == PageOf(r.query)
        limit == LimitOf(r.query)
        skip == SkipFor(page, limit)
        search == SearchOf(r.query)
    IN  CASE r.pc = "start" ->
                {Result([r EXCEPT !.pc = "find", !.total = CountDocuments(U, search)],
                        U, now)}
          [] r.pc = "find" ->
                \* the server rejects a negative skip: the catch block answers
                IF skip < 0 THEN {Result(ServerError(r), U, now)}
                ELSE LET agents == FindPage(U, search, skip, limit)
                     IN  {Result(Respond(r, 200, "Agents list fetched successfully",
                                    [pagination |-> Pagination(page, limit, r.total),
                                     agents |-> [k \in 1..Len(agents) |->
                                                    AgentView(U, agents[k])]]),
                                 U, now)}

-----------------------------------------------------------------------------
(* One step of whichever handler serves the request *)

HandlerStep(r, U, now) ==
    CASE r.kind = "create" -> CreateAgentStep(r, U, now)
      [] r.kind = "update" -> UpdateAgentStep(r, U, now)
      [] r.kind = "delete" -> DeleteAgentStep(r, U, now)
      [] r.kind = "toggle" -> ToggleAgentStatusStep(r, U, now)
      [] r.kind = "get" -> GetAgentStep(r, U, now)
      [] r.kind = "list" -> GetAgentsListStep(r, U, now)

\* the ways the handler can run from r to its response with no other request
\* in between
RECURSIVE RunAlone(_, _, _)
RunAlone(r, U, now) ==
    IF r.pc = "done" THEN {Result(r, U, now)}
    ELSE UNION {RunAlone(s.r, s.users, s.clock) : s \in HandlerStep(r, U, now)}

-----------------------------------------------------------------------------
(* Inputs *)

EmailC == <<"c", "@", "x">>
EmailA == <<"a", "@", "x">>
EmailB == <<"b", "@", "x">>
EmailN == <<"n", "@", "x">>

PhoneA == <<"5", "5", "5", "0", "0", "0", "0", "0", "0", "1">>
PhoneAFormatted ==
    <<"(", "5", "5", "5", ")", " ", "0", "0", "0", "-", "0", "0", "0", "1">>
PhoneShort == <<"5", "5", "-", "7">>

Password == <<"p", "w">>

Customer ==
    NewUser([role |-> "customer", name |-> <<"C", "y">>, email |-> EmailC,
             phone |-> <<>>, password |-> Password, categoryIds |-> <<>>,
             status |-> "offline"], 1)

AgentA ==
    NewUser([role |-> "agent", name |-> <<"A", "l", " ", "B">>, email |-> EmailA,
             phone |-> PhoneA, password |-> Password, categoryIds |-> <<>>,
             status |-> "offline"], 2)

AgentB ==
    NewUser([role |-> "agent", name |-> <<"B", "o">>, email |-> EmailB,
             phone |-> <<>>, password |-> Password, categoryIds |-> <<"c", "1">>,
             status |-> "offline"], 3)

\* collections the server may start with
InitialCollections == {<<Customer, AgentA>>, <<Customer, AgentA, AgentB>>}

Body(firstName, lastName, email, phone, password, categoryId) ==
    [firstName |-> firstName, lastName |-> lastName, email |-> email,
     phone |-> phone, password |-> password, categoryId |-> categoryId]

CreateBodies ==
    {Body(<<"N">>, <<"Z">>, EmailN, Absent, Password, Absent),
     Body(<<"N">>, <<>>, EmailC, Absent, Password, Absent),
     Body(<<"N">>, <<"Z">>, EmailA, Absent, Password, Absent),
     Body(<<"N">>, <<"Z">>, EmailN, PhoneAFormatted, Password, Absent),
     Body(<<"N">>, <<"Z">>, EmailN, PhoneShort, Absent, <<"c", "1">>)}

UpdateBodies ==
    {Body(Absent, Absent, EmailN, Absent, Absent, Absent),
     Body(<<"A">>, <<"Q">>, Absent, <<>>, Password, <<>>)}

EmailM == <<"m", "@", "x">>

\* bodies that exercise createAgent's checks: phones with and without
\* formatting and with ten or fewer digits, a missing and an empty password,
\* names that need trimming, a category
CreateCheckBodies ==
    {Body(<<"N">>, <<"Z">>, EmailN, PhoneShort, Password, Absent),
     Body(<<"M">>, <<"Z">>, EmailM, PhoneShort, Password, Absent),
     Body(<<"N">>, <<"Z">>, EmailN, PhoneA, Password, Absent),
     Body(<<"N">>, <<"Z">>, EmailN, PhoneAFormatted, Absent, Absent),
     Body(<<"N">>, <<"Z">>, EmailA, Absent, Absent, Absent),
     Body(<<"N">>, <<"Z">>, EmailN, Absent, Absent, Absent),
     Body(<<"N">>, <<"Z">>, EmailN, <<>>, <<>>, Absent),
     Body(<<" ", "N">>, <<>>, EmailN, Absent, Password, <<"c", "1">>)}

\* the bodies of the requests that run concurrently
RaceCreateBodies == {Body(<<"N">>, <<"Z">>, EmailN, Absent, Password, Absent)}
RaceUpdateBodies == {Body(Absent, Absent, EmailN, Absent, Absent, Absent)}

Query(page, limit, search) == [page |-> page, limit |-> limit, search |-> search]

DigitChar(n) ==
    CASE n = 0 -> "0" [] n = 1 -> "1" [] n = 2 -> "2" [] n = 3 -> "3" [] n = 4 -> "4"
      [] n = 5 -> "5" [] n = 6 -> "6" [] n = 7 -> "7" [] n = 8 -> "8" [] n = 9 -> "9"

\* req.query.page / req.query.limit as the client sends them
PageParams ==
    {Absent, <<"0">>, <<"-", "1">>} \cup {<<DigitChar(n)>> : n \in 1..MaxPageParam}
LimitParams ==
    {Absent, <<"x">>, <<"-", "1">>} \cup {<<DigitChar(n)>> : n \in 1..MaxLimitParam}
SearchParams == {Absent, <<"A">>, <<"@", "X">>}

Queries == {Query(pg, lm, se) : pg \in PageParams, lm \in LimitParams, se \in SearchParams}

\* req.params.id: every stored id and one that names no document
TargetIds == 1..(Len(users) + 1)

-----------------------------------------------------------------------------
(* Actions *)

NoBase == [users |-> <<>>, clock |-> 0, n |-> 0]

OthersIdle(p) == \A q \in Procs \ {p} : reqs[q].pc = "idle"

\* connection p begins to serve r; base keeps the collection as it was when
\* the first of the requests now being served began, and counts them
Start(p, r) ==
    /\ reqs[p].pc = "idle"
    /\ served < MaxRequests
    /\ served' = served + 1
    /\ reqs' = [reqs EXCEPT ![p] = r]
    /\ base' = IF OthersIdle(p) THEN [users |-> users, clock |-> clock, n |-> 1]
               ELSE [base EXCEPT !.n = @ + 1]
    /\ UNCHANGED <<users, clock, deletedOK, mail>>

\* creates that may still append a document
PendingCreates == {q \in Procs : reqs[q].kind = "create" /\ Running(reqs[q])}

StartCreateAgent(p, bodies) ==
    /\ Len(users) + Cardinality(PendingCreates) < MaxUsers
    /\ \E body \in bodies : Start(p, NewRequest("create", 0, body, NoQuery))

StartUpdateAgent(p, bodies) ==
    \E id \in TargetIds, body \in bodies :
        Start(p, NewRequest("update", id, body, NoQuery))

StartDeleteAgent(p) ==
    \E id \in TargetIds : Start(p, NewRequest("delete", id, NoBody, NoQuery))

StartToggleAgentStatus(p) ==
    \E id \in TargetIds : Start(p, NewRequest("toggle", id, NoBody, NoQuery))

StartGetAgent(p) ==
    \E id \in TargetIds : Start(p, NewRequest("get", id, NoBody, NoQuery))

StartGetAgentsList(p) ==
    \E query \in Queries :
        Start(p, [NewRequest("list", 0, NoBody, query) EXCEPT
                     !.deletedBefore = deletedOK])

\* the next step of the handler serving connection p
Advance(p) ==
    /\ Running(reqs[p])
    /\ \E s \in HandlerStep(reqs[p], users, clock) :
          /\ reqs' = [reqs EXCEPT ![p] = s.r]
          /\ users' = s.users
          /\ clock' = s.clock
          /\ deletedOK' = IF /\ s.r.kind = "delete"
                             /\ s.r.pc = "done"
                             /\ s.r.resp.code = 200
                          THEN deletedOK \cup {s.r.id} ELSE deletedOK
    /\ UNCHANGED <<base, served, mail>>

CreateAgent(p) ==
    /\ reqs[p].kind = "create"
    /\ Advance(p)

UpdateAgent(p) ==
    /\ reqs[p].kind = "update"
    /\ Advance(p)

DeleteAgent(p) ==
    /\ reqs[p].kind = "delete"
    /\ Advance(p)

ToggleAgentStatus(p) ==
    /\ reqs[p].kind = "toggle"
    /\ Advance(p)

GetAgent(p) ==
    /\ reqs[p].kind = "get"
    /\ Advance(p)

GetAgentsList(p) ==
    /\ reqs[p].kind = "list"
    /\ Advance(p)

\* the response has been sent: the connection is free again
Release(p) ==
    /\ reqs[p].pc = "done"
    /\ reqs' = [reqs EXCEPT ![p] = Idle]
    /\ base' = IF OthersIdle(p) THEN NoBase ELSE base
    /\ UNCHANGED <<users, clock, deletedOK, served, mail>>

InitWith(collections) ==
    /\ users \in collections
    /\ clock = Len(users) + 1
    /\ reqs = [p \in Procs |-> Idle]
    /\ base = NoBase
    /\ deletedOK = {}
    /\ served = 0
    /\ mail = [pc |-> "unused"]

\* the server answering one request at a time
InitSerial == InitWith(InitialCollections)

NextSerial ==
    \/ StartCreateAgent(1, CreateBodies)
    \/ StartUpdateAgent(1, UpdateBodies)
    \/ StartDeleteAgent(1)
    \/ StartToggleAgentStatus(1)
    \/ StartGetAgent(1)
    \/ StartGetAgentsList(1)
    \/ CreateAgent(1)
    \/ UpdateAgent(1)
    \/ DeleteAgent(1)
    \/ ToggleAgentStatus(1)
    \/ GetAgent(1)
    \/ GetAgentsList(1)
    \/ Release(1)

SpecSerial == InitSerial /\ [][NextSerial]_vars

\* the server answering NumProcs requests at once, one on each connection,
\* their awaits interleaved
InitRace == InitWith({<<Customer, AgentA>>})

NextRace ==
    \E p \in Procs :
        \/ StartToggleAgentStatus(p)
        \/ StartDeleteAgent(p)
        \/ StartUpdateAgent(p, RaceUpdateBodies)
        \/ StartCreateAgent(p, RaceCreateBodies)
        \/ ToggleAgentStatus(p)
        \/ DeleteAgent(p)
        \/ UpdateAgent(p)
        \/ CreateAgent(p)

SpecRace == InitRace /\ [][NextRace]_vars

\* the server answering createAgent requests one at a time
InitCreate == InitWith({<<Customer, AgentA>>})

NextCreate ==
    \/ StartCreateAgent(1, CreateCheckBodies)
    \/ CreateAgent(1)
    \/ Release(1)

SpecCreate == InitCreate /\ [][NextCreate]_vars

-----------------------------------------------------------------------------
(* emailService.js *)

ToUpperChar(c) ==
    CASE c = "a" -> "A" [] c = "b" -> "B" [] c = "c" -> "C" [] c = "d" -> "D"
      [] c = "e" -> "E" [] c = "f" -> "F" [] c = "g" -> "G" [] c = "h" -> "H"
      [] c = "i" -> "I" [] c = "j" -> "J" [] c = "k" -> "K" [] c = "l" -> "L"
      [] c = "m" -> "M" [] c = "n" -> "N" [] c = "o" -> "O" [] c = "p" -> "P"
      [] c = "q" -> "Q" [] c = "r" -> "R" [] c = "s" -> "S" [] c = "t" -> "T"
      [] c = "u" -> "U" [] c = "v" -> "V" [] c = "w" -> "W" [] c = "x" -> "X"
      [] c = "y" -> "Y" [] c = "z" -> "Z" [] OTHER -> c

ToUpperCase(s) == [i \in 1..Len(s) |-> ToUpperChar(s[i])]

StReopen == <<"r", "e", "o", "p", "e", "n">>
StReopened == <<"r", "e", "o", "p", "e", "n", "e", "d">>
StPending == <<"p", "e", "n", "d", "i", "n", "g">>
StInProgress == <<"i", "n", "_", "p", "r", "o", "g", "r", "e", "s", "s">>
StResolved == <<"r", "e", "s", "o", "l", "v", "e", "d">>
StClosed == <<"c", "l", "o", "s", "e", "d">>

\* a template literal `${text}${value}`: the fixed text is one element
Template(text, value) == <<text>> \o value

\* the switch without its case 'reopen'
TicketSubject_NoReopen(status, ticketNumber) ==
    CASE status = StReopened -> Template("Ticket Reopened - ", ticketNumber)
      [] status = StPending -> Template("Ticket Pending - ", ticketNumber)
      [] status = StInProgress -> Template("Ticket In Progress - ", ticketNumber)
      [] status = StResolved -> Template("Ticket Resolved - ", ticketNumber)
      [] status = StClosed -> Template("Ticket Closed - ", ticketNumber)
      [] OTHER -> Template("Ticket Status Updated - ", ticketNumber)

\* the switch on the lower-cased status
TicketSubject(status, ticketNumber) ==
    CASE status = StReopen -> Template("Ticket Reopened - ", ticketNumber)
      [] status = StReopened -> Template("Ticket Reopened - ", ticketNumber)
      [] status = StPending -> Template("Ticket Pending - ", ticketNumber)
      [] status = StInProgress -> Template("Ticket In Progress - ", ticketNumber)
      [] status = StResolved -> Template("Ticket Resolved - ", ticketNumber)
      [] status = StClosed -> Template("Ticket Closed - ", ticketNumber)
      [] OTHER -> Template("Ticket Status Updated - ", ticketNumber)

\* ticket.ticketNumber || ticket._id
TicketNumberOf(ticket) ==
    IF Truthy(ticket.ticketNumber) THEN ticket.ticketNumber ELSE ticket.id

\* a getBrevoInstance that does not look at the key
GetBrevoInstanceThrows_Never(apiKey) == FALSE

\* getBrevoInstance: throws unless process.env.BREVO_API_KEY is set
GetBrevoInstanceThrows(apiKey) == ~Truthy(apiKey)

NoReturn == [none |-> TRUE]

\* no call of the module is running
MailIdle(apiKey) ==
    [apiKey |-> apiKey, pc |-> "idle", fn |-> "none", ticket |-> NoBody,
     customer |-> NoBody, calls |-> <<>>, attempts |-> <<>>, provider |-> "none",
     emailResult |-> NoReturn, ret |-> NoReturn, threw |-> FALSE]

\* the caller of the running function gets its value
Return(m, emailResult) ==
    [m EXCEPT !.pc = "returned",
              !.emailResult = emailResult,
              !.ret = IF m.fn = "sendEmail" THEN emailResult
                      ELSE <<[type |-> "customer", result |-> emailResult]>>]

\* sendEmail's catch block
SendEmailCatch(m, error) == Return(m, [success |-> FALSE, error |-> error])

\* sendEmail(to, subject, html) up to its await: the message is handed to the
\* provider, or getBrevoInstance throws into the catch block
SendEmailBegin(m, to, subject) ==
    LET called == [m EXCEPT !.calls = Append(@, [to |-> to, subject |-> subject])]
    IN  IF GetBrevoInstanceThrows(m.apiKey)
        THEN SendEmailCatch(called, "BREVO_API_KEY is not defined in environment variables")
        ELSE [called EXCEPT
                !.pc = "awaitProvider",
                !.attempts = Append(@, [to |-> <<[email |-> to]>>, subject |-> subject])]

\* apiInstance.sendTransacEmail resolves or rejects
SendEmailEnd(m, accepted) ==
    LET answered == [m EXCEPT !.provider = IF accepted THEN "accepted" ELSE "rejected"]
    IN  IF accepted THEN Return(answered, [success |-> TRUE, data |-> "result"])
        ELSE SendEmailCatch(answered, "provider error")

\* sendTicketUpdateStatusEmail(ticket, customer) up to its await
TicketEmailBegin(m, ticket, customer) ==
    LET status == ToLowerCase(ticket.status)
        ticketNumber == TicketNumberOf(ticket)
    IN  SendEmailBegin([m EXCEPT !.fn = "sendTicketUpdateStatusEmail",
                                 !.ticket = ticket, !.customer = customer],
                       customer.email, TicketSubject(status, ticketNumber))

TicketStatuses ==
    LET known == {StReopen, StReopened, StPending, StInProgress, StResolved, StClosed}
    IN  known \cup {ToUpperCase(st) : st \in known}
              \cup {<<ToUpperChar(Head(st))>> \o Tail(st) : st \in known}
              \cup {<<>>, <<"o", "p", "e", "n">>, <<"r", "e", "-", "o", "p", "e", "n">>,
                    StClosed \o <<" ">>}

TicketNumbers == {Absent, <<>>, <<"T", "7">>}

Tickets ==
    {[status |-> st, ticketNumber |-> tn, id |-> <<"i", "d", "9">>] :
        st \in TicketStatuses, tn \in TicketNumbers}

Customers == {[email |-> EmailC, name |-> <<"C", "y">>]}

ApiKeys == {Absent, <<>>, <<"k">>}

Subjects == {<<"Welcome">>}

SendEmail ==
    /\ mail.pc = "idle"
    /\ \E to \in {EmailA, EmailC}, subject \in Subjects :
          mail' = SendEmailBegin([mail EXCEPT !.fn = "sendEmail"], to, subject)
    /\ UNCHANGED <<users, clock, reqs, base, deletedOK, served>>

SendTicketUpdateStatusEmail ==
    /\ mail.pc = "idle"
    /\ \E ticket \in Tickets, customer \in Customers :
          mail' = TicketEmailBegin(mail, ticket, customer)
    /\ UNCHANGED <<users, clock, reqs, base, deletedOK, served>>

ProviderAnswers ==
    /\ mail.pc = "awaitProvider"
    /\ \E accepted \in BOOLEAN : mail' = SendEmailEnd(mail, accepted)
    /\ UNCHANGED <<users, clock, reqs, base, deletedOK, served>>

\* the caller has the value: the module is ready for the next call
MailDone ==
    /\ mail.pc = "returned"
    /\ mail' = MailIdle(mail.apiKey)
    /\ UNCHANGED <<users, clock, reqs, base, deletedOK, served>>

InitMail ==
    /\ users = <<>>
    /\ clock = 1
    /\ reqs = [p \in Procs |-> Idle]
    /\ base = NoBase
    /\ deletedOK = {}
    /\ served = 0
    /\ mail \in {MailIdle(k) : k \in ApiKeys}

NextMail == SendEmail \/ SendTicketUpdateStatusEmail \/ ProviderAnswers \/ MailDone

SpecMail == InitMail /\ [][NextMail]_vars

-----------------------------------------------------------------------------
(* Properties *)

Done(p) == reqs[p].pc = "done"

\* the request that connection p is serving, as it arrived
Arrived(p) ==
    NewRequest(reqs[p].kind, IF reqs[p].kind = "create" THEN 0 ELSE reqs[p].id,
               reqs[p].body, reqs[p].query)

\* the collections and responses that serving p's request and then q's, one
\* after the other from the collection in base, can end with
SequentialOutcomes(p, q) ==
    UNION {{[users |-> t.users, first |-> s.r.resp, second |-> t.r.resp] :
                t \in RunAlone(Arrived(q), s.users, s.clock)} :
            s \in RunAlone(Arrived(p), base.users, base.clock)}

\* C1: two agent-handler requests that run concurrently, their database
\* reads and writes interleaved in any order, leave the User collection and
\* get the responses of one of the two sequential orders of the same requests.
C1_ConcurrentRequestsSerializable ==
    \A p, q \in Procs :
        (/\ p # q
         /\ Done(p) /\ Done(q)
         /\ base.n = 2
         /\ \A o \in Procs \ {p, q} : reqs[o].pc = "idle")
        => \/ [users |-> users, first |-> reqs[p].resp, second |-> reqs[q].resp]
                \in SequentialOutcomes(p, q)
           \/ [users |-> users, first |-> reqs[q].resp, second |-> reqs[p].resp]
                \in SequentialOutcomes(q, p)

\* the collection when the request on connection p began (with requests
\* served one at a time)
Before1(p) == base.users

\* C2: createAgent called with an email that already belongs to a User record,
\* of any role and deleted or not, answers 400 'User with this email already
\* exists' and adds no User record.
C2_DuplicateEmailRejected ==
    \A p \in Procs :
        (/\ reqs[p].kind = "create"
         /\ reqs[p].pc # "idle"
         /\ \E i \in Ids(Before1(p)) : Before1(p)[i].email = reqs[p].body.email)
        => /\ users = Before1(p)
           /\ reqs[p].pc \in {"start", "done"}
           /\ Done(p) => /\ reqs[p].resp.code = 400
                         /\ reqs[p].resp.message = "User with this email already exists"

\* C2's case: the email belongs to a soft-deleted record and the request is
\* answered
C2_Witness ==
    \E p \in Procs :
        /\ reqs[p].kind = "create" /\ Done(p)
        /\ \E i \in Ids(Before1(p)) :
              /\ Before1(p)[i].email = reqs[p].body.email
              /\ Before1(p)[i].isDeleted
        /\ reqs[p].resp.code = 400

\* the answers to a request whose id names a User that is not an agent
C3_NonAgentAnswers ==
    \A p \in Procs :
        (/\ Done(p)
         /\ reqs[p].id \in Ids(Before1(p))
         /\ Before1(p)[reqs[p].id].role # "agent")
        => /\ reqs[p].kind \in {"get", "update", "delete"}
              => /\ reqs[p].resp.code = 404
                 /\ reqs[p].resp.message = "Agent not found"
           /\ reqs[p].kind = "toggle"
              => /\ reqs[p].resp.code = 400
                 /\ reqs[p].resp.message = "User is not an agent"

\* C3: for an id that names a User whose role is not 'agent', getAgent,
\* updateAgent and deleteAgent answer 404 'Agent not found' and
\* toggleAgentStatus answers 400 'User is not an agent'; and no step of any
\* request changes a field of a non-agent User record.
C3_OnlyAgents ==
    [][/\ C3_NonAgentAnswers'
       /\ \A i \in Ids(users) :
             users[i].role # "agent" => i \in Ids(users') /\ users'[i] = users[i]]_vars

\* C3's case: an update that would change the email is answered for the
\* customer's id
C3_Witness ==
    \E p \in Procs :
        /\ reqs[p].kind = "update" /\ Done(p)
        /\ reqs[p].id \in Ids(users)
        /\ users[reqs[p].id].role = "customer"
        /\ reqs[p].body.email = EmailN

\* the ids of the agents in a list response
ListedIds(resp) == {resp.data.agents[k].id : k \in 1..Len(resp.data.agents)}

\* no handler is running: the states in which the next request arrives
BetweenRequests == \A p \in Procs : reqs[p].pc = "idle"

\* the ids a list request with this query finds in the collection now
FoundNow(query) ==
    IF SkipFor(PageOf(query), LimitOf(query)) < 0 THEN {}
    ELSE LET agents == FindPage(users, SearchOf(query),
                                SkipFor(PageOf(query), LimitOf(query)), LimitOf(query))
         IN  {agents[k] : k \in 1..Len(agents)}

\* C4: deleteAgent is a soft delete: once deleteAgent(id) has answered 200 the
\* User record still exists with isDeleted = true and deletedAt set, and no
\* getAgentsList request begun later, for any page, limit or search, lists it:
\* neither one that begins now nor one that began after the delete and has
\* answered.
C4_SoftDelete ==
    /\ \A id \in deletedOK :
          /\ id \in Ids(users)
          /\ users[id].isDeleted
          /\ users[id].deletedAt # NoDate
    /\ (deletedOK # {} /\ BetweenRequests)
          => \A query \in Queries : FoundNow(query) \cap deletedOK = {}
    /\ \A p \in Procs :
          (reqs[p].kind = "list" /\ Done(p) /\ reqs[p].resp.code = 200)
          => ListedIds(reqs[p].resp) \cap reqs[p].deletedBefore = {}

\* C4's case: a list that begins after a successful delete and lists an agent
C4_Witness ==
    \E p \in Procs :
        /\ reqs[p].kind = "list" /\ Done(p) /\ reqs[p].resp.code = 200
        /\ reqs[p].deletedBefore # {}
        /\ ListedIds(reqs[p].resp) # {}

\* the limits a client can ask for that are at least 1
PositiveLimits == {LimitOf(Query(Absent, lm, Absent)) : lm \in LimitParams} \ (-10..0)

\* page number pg of the listing of the collection now
PageNow(search, pg, limit) == FindPage(users, search, SkipFor(pg, limit), limit)

AgentOnLaterPage(search, pg, limit) ==
    \E later \in (pg + 1)..(pg + MaxUsers + 2) :
        /\ later # 0
        /\ SkipFor(later, limit) >= 0
        /\ PageNow(search, later, limit) # <<>>

\* t is the least integer that is at least the quotient a / b
IsCeilingOf(t, a, b) ==
    IF b > 0 THEN t * b >= a /\ (t - 1) * b < a
    ELSE t * b <= a /\ (t - 1) * b > a

\* C6: in every getAgentsList response totalPages = ceil(totalAgents / limit),
\* hasPrevPage is true exactly when currentPage > 1, and hasNextPage is true
\* exactly when at least one matching agent lies on a page after currentPage.
C6_PaginationFlags ==
    \A p \in Procs :
        (reqs[p].kind = "list" /\ Done(p) /\ reqs[p].resp.code = 200)
        => LET pg == reqs[p].resp.data.pagination
           IN  /\ IsCeilingOf(pg.totalPages, pg.totalAgents, pg.limit)
               /\ pg.hasPrevPage = (pg.currentPage > 1)
               /\ pg.hasNextPage =
                     AgentOnLaterPage(SearchOf(reqs[p].query), pg.currentPage, pg.limit)

\* the subject the claim gives for a ticket
C7_Subject(ticket) ==
    LET st == ToLowerCase(ticket.status)
        N == IF ticket.ticketNumber \in {Absent, <<>>} THEN ticket.id
             ELSE ticket.ticketNumber
        text == IF st \in {StReopen, StReopened} THEN "Ticket Reopened - "
                ELSE IF st = StPending THEN "Ticket Pending - "
                ELSE IF st = StInProgress THEN "Ticket In Progress - "
                ELSE IF st = StResolved THEN "Ticket Resolved - "
                ELSE IF st = StClosed THEN "Ticket Closed - "
                ELSE "Ticket Status Updated - "
    IN  <<text>> \o N

\* C7: sendTicketUpdateStatusEmail picks the template from the ticket status
\* compared case-insensitively, as a total mapping ('reopen' and 'reopened',
\* 'pending', 'in_progress', 'resolved', 'closed', and 'Ticket Status Updated'
\* for every other status), with N the ticket number or the ticket id when the
\* number is missing, and sends exactly one email, to customer.email, with
\* that subject.
C7_TicketStatusTemplate ==
    mail.fn = "sendTicketUpdateStatusEmail"
    => /\ Len(mail.calls) = 1
       /\ mail.calls[1].to = mail.customer.email
       /\ mail.calls[1].subject = C7_Subject(mail.ticket)
       /\ mail.pc = "returned"
          => /\ Len(mail.ret) = 1
             /\ mail.ret[1].type = "customer"

\* C7's case: an upper-case 'REOPEN' ticket without a number has been mailed
C7_Witness ==
    /\ mail.fn = "sendTicketUpdateStatusEmail"
    /\ mail.pc = "returned"
    /\ mail.ticket.status = ToUpperCase(StReopen)
    /\ mail.ticket.ticketNumber = Absent
    /\ mail.provider = "accepted"

\* the request on connection p is answered and changed a User record
ChangedUsers(p) == Done(p) /\ users # Before1(p)

\* C8: every request that changes a User record writes exactly one
\* activity-log entry before its response is sent ('added' for createAgent,
\* 'updated' for updateAgent and toggleAgentStatus, 'deleted' for
\* deleteAgent), and a request rejected with 400 or 404 writes none.
C8_OneLogEntryPerChange ==
    \A p \in Procs :
        /\ ChangedUsers(p)
           => reqs[p].logged =
                 <<CASE reqs[p].kind = "create" -> "added"
                     [] reqs[p].kind \in {"update", "toggle"} -> "updated"
                     [] reqs[p].kind = "delete" -> "deleted">>
        /\ (Done(p) /\ reqs[p].resp.code \in {400, 404}) => reqs[p].logged = <<>>

\* C9: a failure of the welcome email or of the push notification does not
\* change the outcome: once createAgent has tried the email it answers 201 and
\* once updateAgent has tried the push it answers 200, and the User record is
\* stored as written, whether the send returned success false or threw and
\* whether sendPushNotification threw.
C9_NotificationFailuresIgnored ==
    \A p \in Procs :
        /\ (reqs[p].kind = "create" /\ Done(p) /\ reqs[p].emails # <<>>)
           => /\ reqs[p].resp.code = 201
              /\ reqs[p].pushes # <<>>
              /\ reqs[p].id \in Ids(users)
              /\ users[reqs[p].id] = reqs[p].doc
        /\ (reqs[p].kind = "update" /\ Done(p) /\ reqs[p].pushes # <<>>)
           => /\ reqs[p].resp.code = 200
              /\ users[reqs[p].id] = reqs[p].doc

\* C9's case: the email threw, the push threw, and createAgent has answered
C9_Witness ==
    \E p \in Procs :
        /\ reqs[p].kind = "create" /\ Done(p)
        /\ reqs[p].emails = <<"threw">>
        /\ reqs[p].pushes = <<"threw">>
        /\ reqs[p].resp.code = 201

\* C10: sendEmail never throws: it returns {success: true, data} when the
\* provider accepts the message and {success: false, error} for every
\* failure, including a missing BREVO_API_KEY, in which case no send to the
\* provider is attempted.
C10_SendEmailNeverThrows ==
    /\ ~mail.threw
    /\ (mail.fn = "sendEmail" /\ mail.pc = "returned")
       => /\ mail.ret.success = (mail.provider = "accepted")
          /\ DOMAIN mail.ret = IF mail.ret.success THEN {"success", "data"}
                               ELSE {"success", "error"}
    /\ (mail.fn = "sendEmail" /\ mail.apiKey \in {Absent, <<>>})
       => /\ mail.attempts = <<>>
          /\ mail.provider = "none"
          /\ mail.pc = "returned" /\ mail.ret.success = FALSE

\* C10's case: sendEmail has returned without a key
C10_Witness ==
    /\ mail.fn = "sendEmail"
    /\ mail.pc = "returned"
    /\ mail.apiKey = Absent
    /\ mail.ret.success = FALSE

\* the value under which createAgent stores the phone of a request body:
\* digits only, with +1 in front when there are exactly ten
StoredPhone(body) == NewUser(CreateFields(body), 0).phone

\* a createAgent request on connection p that gives a phone which, as it
\* would be stored, is the stored phone of a User that existed when the
\* request began, and whose email is new
GivesStoredPhone(p) ==
    /\ reqs[p].kind = "create"
    /\ reqs[p].pc # "idle"
    /\ Truthy(reqs[p].body.phone)
    /\ \A i \in Ids(Before1(p)) : Before1(p)[i].email # reqs[p].body.email
    /\ \E i \in Ids(Before1(p)) : Before1(p)[i].phone = StoredPhone(reqs[p].body)

\* C11: for every phone given, with or without formatting characters and
\* with any number of digits, when an existing User's stored phone equals the
\* value under which the new agent's phone would be stored, createAgent
\* answers 400 'User with this phone number already exists' and adds no User
\* record.
C11_DuplicatePhoneRejected ==
    \A p \in Procs :
        GivesStoredPhone(p)
        => /\ users = Before1(p)
           /\ reqs[p].pc \in {"start", "findPhone", "done"}
           /\ Done(p) => /\ reqs[p].resp.code = 400
                         /\ reqs[p].resp.message =
                                "User with this phone number already exists"

\* the part of C11 that the code keeps: a phone of exactly ten digits, however
\* it is formatted, is found
C11_TenDigitPhoneRejected ==
    \A p \in Procs :
        (GivesStoredPhone(p) /\ Len(DigitsOnly(reqs[p].body.phone)) = 10)
        => /\ users = Before1(p)
           /\ reqs[p].pc \in {"start", "findPhone", "done"}
           /\ Done(p) => /\ reqs[p].resp.code = 400
                         /\ reqs[p].resp.message =
                                "User with this phone number already exists"

\* C12: after any sequence of createAgent and updateAgent requests that
\* starts from a collection with pairwise distinct emails, no two User
\* records have the same email.
C12_EmailsDistinct ==
    \A i, j \in Ids(users) : i # j => users[i].email # users[j].email

\* the part of C12 that the code keeps: createAgent alone never stores an
\* email that a record already has
C12_CreateKeepsEmailsDistinct ==
    [][\A p \in Procs :
          (reqs[p].kind = "create" /\ Len(users') > Len(users))
          => \A i \in Ids(users) : users[i].email # users'[Len(users')].email]_vars

\* connections p and q serve createAgent requests that overlap and give the
\* same email, which no record had when they began
SameNewEmail(p, q) ==
    /\ p # q
    /\ reqs[p].kind = "create" /\ reqs[q].kind = "create"
    /\ base.n = 2
    /\ reqs[p].body.email = reqs[q].body.email
    /\ \A i \in Ids(base.users) : base.users[i].email # reqs[p].body.email

\* C13: when two createAgent requests with the same new email run
\* concurrently, at most one of them answers 201 and at most one User record
\* with that email exists afterwards, however their findOne and create steps
\* interleave.
C13_ConcurrentCreatesOneWins ==
    \A p, q \in Procs :
        SameNewEmail(p, q)
        => /\ Cardinality({i \in Ids(users) : users[i].email = reqs[p].body.email}) <= 1
           /\ ~(/\ Done(p) /\ reqs[p].resp.code = 201
                 /\ Done(q) /\ reqs[q].resp.code = 201)

\* a createAgent request on connection p that gives no password (none, or
\* the empty string)
WithoutPassword(p) ==
    /\ reqs[p].kind = "create"
    /\ reqs[p].pc # "idle"
    /\ ~Truthy(reqs[p].body.password)

\* the message of the first check a body fails against collection U
FirstFailedCheck(U, body) ==
    IF \E i \in Ids(U) : U[i].email = body.email
    THEN "User with this email already exists"
    ELSE IF Truthy(body.phone) /\ FindOneByPhone(U, NormalizedPhone(body.phone)) # {}
    THEN "User with this phone number already exists"
    ELSE "Password is required"

\* C14: a createAgent request without a password answers 400 'Password is
\* required' and adds no User record; the check runs after the email and
\* phone duplicate checks, so a request with a duplicate email (or phone) and
\* no password gets the duplicate message.
C14_PasswordRequired ==
    \A p \in Procs :
        WithoutPassword(p)
        => /\ users = Before1(p)
           /\ reqs[p].pc \in {"start", "findPhone", "done"}
           /\ Done(p) => /\ reqs[p].resp.code = 400
                         /\ reqs[p].resp.message =
                                FirstFailedCheck(Before1(p), reqs[p].body)

\* C14's case: a request with a new email and no password has been answered
\* 'Password is required'
C14_Witness ==
    \E p \in Procs :
        /\ WithoutPassword(p) /\ Done(p)
        /\ reqs[p].body.password = Absent
        /\ reqs[p].resp.message = "Password is required"

\* createAgent on connection p has answered 201
Created(p) == reqs[p].kind = "create" /\ Done(p) /\ reqs[p].resp.code = 201

\* C15: a createAgent that answers 201 has added exactly one User record,
\* with role 'agent', status 'offline', name the firstName and lastName joined
\* by one space and trimmed, and categoryIds the given categoryId or the
\* empty list when none is given.
C15_CreatedRecord ==
    \A p \in Procs :
        Created(p)
        => /\ Len(users) = Len(Before1(p)) + 1
           /\ SubSeq(users, 1, Len(Before1(p))) = Before1(p)
           /\ LET agent == users[Len(users)]
                   joined == reqs[p].body.firstName \o <<" ">> \o reqs[p].body.lastName
               IN  /\ agent.role = "agent"
                   /\ agent.status = "offline"
                   /\ agent.email = reqs[p].body.email
                   /\ agent.name = Trim(joined)
                   /\ agent.name = <<>> \/ (Head(agent.name) # " "
                                             /\ agent.name[Len(agent.name)] # " ")
                   /\ agent.categoryIds = IF reqs[p].body.categoryId = Absent THEN <<>>
                                          ELSE reqs[p].body.categoryId

\* C15's case: a request whose joined name has blanks at both ends and which
\* gives a category has been answered 201
C15_Witness ==
    \E p \in Procs :
        /\ Created(p)
        /\ reqs[p].body.firstName = <<" ", "N">>
        /\ reqs[p].body.lastName = <<>>
        /\ reqs[p].body.categoryId # Absent

\* C16: in createAgent the welcome email and the push notification are each
\* sent at most once per request, and only after the User record has been
\* stored and the activity log written; a request in which the welcome email
\* is sent goes on to answer 201 and nothing else; a request answered 400 has
\* sent no email and no push.
C16_NotificationsAfterStore ==
    \A p \in Procs :
        reqs[p].kind = "create"
        => /\ Len(reqs[p].emails) <= 1
           /\ Len(reqs[p].pushes) <= 1
           /\ (reqs[p].emails # <<>> \/ reqs[p].pushes # <<>>)
              => /\ Len(users) = Len(Before1(p)) + 1
                 /\ reqs[p].id = Len(users)
                 /\ users[reqs[p].id].email = reqs[p].body.email
                 /\ reqs[p].logged = <<"added">>
           /\ reqs[p].emails # <<>>
              => /\ reqs[p].pc \in {"sendPush", "done"}
                 /\ Done(p) => reqs[p].resp.code = 201
           /\ (Done(p) /\ reqs[p].resp.code = 400)
              => reqs[p].emails = <<>> /\ reqs[p].pushes = <<>>

\* C16's case: the email and the push have both been sent and the request
\* has answered
C16_Witness ==
    \E p \in Procs :
        /\ reqs[p].kind = "create" /\ Done(p)
        /\ reqs[p].emails = <<"sent">>
        /\ reqs[p].pushes = <<"sent">>

\* C17: whenever createAgent, updateAgent, deleteAgent or toggleAgentStatus
\* answers 500, the User collection is the same as before the request: a
\* failure of logActivity or Notification.create leaves no created, modified
\* or deleted agent behind.
C17_ServerErrorLeavesCollection ==
    \A p \in Procs :
        (/\ reqs[p].kind \in {"create", "update", "delete", "toggle"}
         /\ Done(p)
         /\ reqs[p].resp.code = 500)
        => users = Before1(p)

\* a deleteAgent request on connection p for an agent that was already
\* soft-deleted when the request began
DeletesDeleted(p) ==
    /\ reqs[p].kind = "delete"
    /\ reqs[p].pc # "idle"
    /\ reqs[p].id \in Ids(Before1(p))
    /\ Before1(p)[reqs[p].id].role = "agent"
    /\ Before1(p)[reqs[p].id].isDeleted

\* C18: deleteAgent on an agent that is already soft-deleted answers 400
\* 'Agent is already deleted', changes nothing in the record (deletedAt keeps
\* its first value), and creates no Notification and no activity-log entry.
C18_DeleteOfDeleted ==
    \A p \in Procs :
        DeletesDeleted(p)
        => /\ users = Before1(p)
           /\ reqs[p].pc \in {"start", "done"}
           /\ reqs[p].notifs = 0
           /\ reqs[p].logged = <<>>
           /\ Done(p) => /\ reqs[p].resp.code = 400
                         /\ reqs[p].resp.message = "Agent is already deleted"

\* C18's case: the second deleteAgent for an agent has been answered
C18_Witness ==
    \E p \in Procs :
        /\ DeletesDeleted(p) /\ Done(p)
        /\ reqs[p].id \in deletedOK
        /\ users[reqs[p].id].deletedAt # NoDate

\* connections p and q serve deleteAgent requests that overlap, for the same
\* agent, which was not deleted when they began; both have answered and
\* neither was answered by the catch block
BothDeleted(p, q) ==
    /\ p # q
    /\ reqs[p].kind = "delete" /\ reqs[q].kind = "delete"
    /\ base.n = 2
    /\ reqs[p].id = reqs[q].id
    /\ reqs[p].id \in Ids(base.users)
    /\ base.users[reqs[p].id].role = "agent"
    /\ ~base.users[reqs[p].id].isDeleted
    /\ Done(p) /\ Done(q)
    /\ reqs[p].resp.code # 500 /\ reqs[q].resp.code # 500

\* C19: when two deleteAgent requests for the same non-deleted agent run
\* concurrently, exactly one answers 200 'Agent deleted successfully' and the
\* other answers 400, and exactly one 'Agent Removed' Notification is
\* created, however their findOne and save steps interleave.
C19_ConcurrentDeletesOneWins ==
    \A p, q \in Procs :
        BothDeleted(p, q)
        => /\ {reqs[p].resp.code, reqs[q].resp.code} = {200, 400}
           /\ reqs[p].notifs + reqs[q].notifs = 1

\* C20: soft deletion is permanent: a User record with isDeleted = true has
\* isDeleted = true in every later state, after any sequence of createAgent,
\* updateAgent, deleteAgent and toggleAgentStatus requests; the record is not
\* removed either.
C20_SoftDeletePermanent ==
    [][\A i \in Ids(users) :
          users[i].isDeleted => i \in Ids(users') /\ users'[i].isDeleted]_vars

\* C20's case: an update of a soft-deleted agent has been saved and answered
\* 200
C20_Witness ==
    \E p \in Procs :
        /\ reqs[p].kind = "update" /\ Done(p)
        /\ reqs[p].resp.code = 200
        /\ reqs[p].id \in deletedOK
        /\ users[reqs[p].id].email = EmailN

\* the request on connection p names an agent that was soft-deleted, by a
\* deleteAgent answered 200, when the request began
NamesDeletedAgent(p) ==
    /\ reqs[p].pc # "idle"
    /\ reqs[p].id \in deletedOK
    /\ reqs[p].id \in Ids(Before1(p))
    /\ Before1(p)[reqs[p].id].role = "agent"
    /\ Before1(p)[reqs[p].id].isDeleted

\* C21: once an agent has been soft-deleted, no later updateAgent or
\* toggleAgentStatus request changes any field of its record, and getAgent
\* no longer returns it.
C21_DeletedAgentUntouched ==
    \A p \in Procs :
        NamesDeletedAgent(p)
        => /\ reqs[p].kind \in {"update", "toggle"}
              => users[reqs[p].id] = Before1(p)[reqs[p].id]
           /\ (reqs[p].kind = "get" /\ Done(p)) => reqs[p].resp.code = 404

\* the value of b negated n times
RECURSIVE NegatedTimes(_, _)
NegatedTimes(b, n) == IF n = 0 THEN b ELSE NegatedTimes(~b, n - 1)

\* the connections whose toggleAgentStatus request for agent id has answered
\* 200
ToggledOK(id) ==
    {p \in Procs : /\ reqs[p].kind = "toggle" /\ reqs[p].id = id
                   /\ Done(p) /\ reqs[p].resp.code = 200}

\* C22: when n toggleAgentStatus requests for the same agent have all
\* answered 200, and no other request wrote in between, the final isActive is
\* the initial value negated n times, however their read and save steps
\* interleave.
C22_NoToggleLost ==
    \A id \in Ids(base.users) :
        (/\ base.n = Cardinality(ToggledOK(id))
         /\ \A p \in Procs : p \in ToggledOK(id) \/ reqs[p].pc = "idle")
        => users[id].isActive =
              NegatedTimes(base.users[id].isActive, Cardinality(ToggledOK(id)))

====
